---------------------------- MODULE Spec2Model ----------------------------
(***************************************************************************)
(* State-machine model of the portfolio backend API (src/main.py,          *)
(* src/schemas.py): contact submissions, the site-settings singleton and   *)
(* project CRUD over a document store.                                     *)
(*                                                                         *)
(* Values.  A Python value of type Optional[T] is a sequence of length at  *)
(* most one: None is <<>> and v is <<v>>.  A JSON payload is a function    *)
(* from the keys it holds to such values (a key that is absent is not in   *)
(* its DOMAIN, a key given as null maps to None).  Stored documents and    *)
(* model_dump() results are records over the schema's fields.              *)
(***************************************************************************)
EXTENDS Integers, Sequences, FiniteSets, TLC

\* Number of ObjectIds the store hands out in one behaviour.
MaxOid == 2

\* Number of settings requests that can be in flight together.
NumWorkers == 2

None == <<>>
Some(v) == <<v>>

\* The string of n copies of "x" (test data for the length bounds).
RECURSIVE Pad(_)
Pad(n) ==
  IF n = 0 THEN ""
  ELSE IF n % 2 = 0 THEN LET h == Pad(n \div 2) IN h \o h
  ELSE "x" \o Pad(n - 1)

Get(p, k) == IF k \in DOMAIN p THEN p[k] ELSE None

(***************************************************************************)
(* src/schemas.py                                                          *)
(***************************************************************************)
NameMinLen_off == 2 - 1

NameMinLen == 2
NameMaxLen == 120
MessageMinLen == 10
MessageMaxLen == 5000
CompanyMaxLen == 200
PhoneMaxLen == 50
StatMin == 0
OrderMin == 0

\* EmailStr: the strings of the model that are well-formed addresses.
EmailStr(s) == s \in {"a@b.co", "ops@axiom.io"}

\* A required str field with Field(..., min_length, max_length).
RequiredStr(p, k, lo, hi) ==
  /\ k \in DOMAIN p
  /\ p[k] # None
  /\ Len(p[k][1]) >= lo
  /\ Len(p[k][1]) <= hi

\* An Optional[str] field with Field(None, max_length).
OptionalStr(p, k, hi) == Get(p, k) = None \/ Len(Get(p, k)[1]) <= hi

\* A field that is required and may not be null (str without default).
Required(p, k) == k \in DOMAIN p /\ p[k] # None

\* A field with a default whose type is not Optional: null is rejected.
NotNull(p, k) == k \in DOMAIN p => p[k] # None

\* An Optional[int] field with Field(_, ge=lo).
OptionalGe(p, k, lo) == Get(p, k) = None \/ Get(p, k)[1] >= lo

ContactFields == {"name", "email", "message", "company", "phone"}

ContactMessage_valid(p) ==
  /\ RequiredStr(p, "name", NameMinLen, NameMaxLen)
  /\ Required(p, "email") /\ EmailStr(p["email"][1])
  /\ RequiredStr(p, "message", MessageMinLen, MessageMaxLen)
  /\ OptionalStr(p, "company", CompanyMaxLen)
  /\ OptionalStr(p, "phone", PhoneMaxLen)

ContactMessage_dump(p) == [k \in ContactFields |-> Get(p, k)]

SettingsFields ==
  {"hero_title", "hero_subtitle", "whatsapp_number", "contact_email",
   "address_line", "city", "country", "stat_projects", "stat_clients",
   "stat_awards", "theme_default_dark"}

SiteSettings_defaults ==
  [hero_title |-> Some("INNOVATE. BUILD. TRANSFORM WITH AXIOM."),
   hero_subtitle |->
     Some("We design smart digital experiences that move businesses forward."),
   whatsapp_number |-> None,
   contact_email |-> None,
   address_line |-> None,
   city |-> None,
   country |-> None,
   stat_projects |-> Some(0),
   stat_clients |-> Some(0),
   stat_awards |-> Some(0),
   theme_default_dark |-> Some(TRUE)]

SiteSettings_valid(p) ==
  /\ NotNull(p, "hero_title")
  /\ NotNull(p, "hero_subtitle")
  /\ Get(p, "contact_email") = None \/ EmailStr(Get(p, "contact_email")[1])
  /\ OptionalGe(p, "stat_projects", StatMin)
  /\ OptionalGe(p, "stat_clients", StatMin)
  /\ OptionalGe(p, "stat_awards", StatMin)
  /\ NotNull(p, "theme_default_dark")

\* SiteSettings(**payload).model_dump(): defaults for the keys left out.
SiteSettings_dump(p) ==
  [k \in SettingsFields |->
     IF k \in DOMAIN p THEN p[k] ELSE SiteSettings_defaults[k]]

ProjectFields ==
  {"title", "tag", "image_url", "description", "case_study_url", "featured",
   "order"}

Project_valid(p) ==
  /\ Required(p, "title")
  /\ Required(p, "tag")
  /\ Required(p, "image_url")
  /\ NotNull(p, "featured")
  /\ OptionalGe(p, "order", OrderMin)

Project_dump(p) ==
  [k \in ProjectFields |->
     IF k \in DOMAIN p THEN p[k]
     ELSE IF k = "featured" THEN Some(FALSE) ELSE None]

ProjectUpdate_valid(p) == OptionalGe(p, "order", OrderMin)

ProjectUpdate_dump(p) == [k \in ProjectFields |-> Get(p, k)]

(***************************************************************************)
(* The document store (database.py is not part of the sources: its         *)
(* operations follow the specification's persistence gateway).             *)
(***************************************************************************)
VARIABLES
  db,           \* TRUE iff the module-level handle `db` is not None
  store_ok,     \* TRUE iff the store answers operations (else they raise)
  collections,  \* collection name -> sequence of documents, natural order
  next_oid,     \* the next ObjectId the store assigns
  reqs,         \* settings requests in flight: worker -> its locals
  last          \* the handler step taken last: its input and its response

vars == <<db, store_ok, collections, next_oid, reqs, last>>

\* Worker threads serving settings requests at the same time.
Workers == 1 .. NumWorkers

\* str(ObjectId) and ObjectId(str).
OidStr(n) == "65f0c0ffee" \o ToString(n)
OidUniverse == 1 .. (MaxOid + 1)
ObjectId_valid(s) == \E n \in OidUniverse : OidStr(n) = s
ObjectId(s) == CHOOSE n \in OidUniverse : OidStr(n) = s

\* db[name]: a collection that was never written to is empty.
Coll(name) == IF name \in DOMAIN collections THEN collections[name] ELSE <<>>

Ids(name) == {Coll(name)[i]._id : i \in 1 .. Len(Coll(name))}

\* Whether a gateway operation can run: a handle exists and the store answers.
Available == db /\ store_ok

\* create_document(collection, record): one insert; the id is next_oid.
create_document(name, record) ==
  /\ collections' =
       (name :> Append(Coll(name), [_id |-> next_oid] @@ record)) @@ collections
  /\ next_oid' = next_oid + 1

\* get_documents(collection, filter, limit): equality filter, optional cap.
Matches(doc, filter) == \A k \in DOMAIN filter : doc[k] = filter[k]

get_documents(name, filter, limit) ==
  LET hits == SelectSeq(Coll(name), LAMBDA d : Matches(d, filter))
  IN IF limit = None \/ Len(hits) <= limit[1] THEN hits
     ELSE SubSeq(hits, 1, limit[1])

\* col.find_one({}): the first document, None when there is none.
find_one(name) == IF Coll(name) = <<>> THEN None ELSE Some(Coll(name)[1])

\* col.update_one({"_id": oid}, {"$set": fields}): the collection afterwards.
update_one(name, oid, fields) ==
  [i \in 1 .. Len(Coll(name)) |->
     IF Coll(name)[i]._id = oid THEN fields @@ Coll(name)[i] ELSE Coll(name)[i]]

matched_count(name, oid) == IF oid \in Ids(name) THEN 1 ELSE 0

\* col.delete_one({"_id": oid}): the collection afterwards.
delete_one(name, oid) == SelectSeq(Coll(name), LAMBDA d : d._id # oid)

\* db.list_collection_names(): the collections that exist.
list_collection_names ==
  SelectSeq(<<"contactmessage", "project", "sitesettings">>,
            LAMBDA c : c \in DOMAIN collections)

\* The document as the handlers return it: doc["_id"] = str(doc.get("_id")).
WithStrId(doc) ==
  [k \in DOMAIN doc |-> IF k = "_id" THEN Some(OidStr(doc._id)) ELSE doc[k]]

(***************************************************************************)
(* src/main.py: outcomes of a try block and the handlers' except clause.   *)
(***************************************************************************)
Return == [raised |-> FALSE, code |-> 200]
Exception == [raised |-> TRUE, code |-> 0]
HTTPException(code) == [raised |-> TRUE, code |-> code]

except_Exception_swallow(outcome) == 200

\* `except Exception as e: raise HTTPException(status_code=500, ...)`.
\* HTTPException is itself an Exception, so the clause catches it too.
except_Exception(outcome) == IF outcome.raised THEN 500 ELSE outcome.code

NoPayload == [k \in {} |-> None]

Blank ==
  [op |-> "", phase |-> "", status |-> 0, pid |-> "",
   tag |-> None, payload |-> NoPayload, rstatus |-> "", rid |-> "",
   items |-> <<>>, settings |-> None, conn |-> "", colls |-> <<>>]

\* A step's record: the fields given, the rest blank.
Step(fields) == fields @@ Blank

CollectionsCap == 10

\* @app.get("/")
read_root ==
  /\ last' = Step([op |-> "read_root", status |-> 200])
  /\ UNCHANGED <<db, store_ok, collections, next_oid, reqs>>

\* @app.get("/api/hello")
hello ==
  /\ last' = Step([op |-> "hello", status |-> 200])
  /\ UNCHANGED <<db, store_ok, collections, next_oid, reqs>>

\* @app.post("/api/contact")
submit_contact(payload) ==
  LET valid == ContactMessage_valid(payload)
      outcome == IF Available THEN Return ELSE Exception
      status == IF ~valid THEN 422 ELSE except_Exception(outcome)
  IN /\ (valid /\ Available) => next_oid <= MaxOid
     /\ IF valid /\ Available
        THEN create_document("contactmessage", ContactMessage_dump(payload))
        ELSE UNCHANGED <<collections, next_oid>>
     /\ last' = Step([op |-> "submit_contact", status |-> status,
                      payload |-> payload,
                      rstatus |-> IF status = 200 THEN "ok" ELSE "",
                      rid |-> IF status = 200 THEN OidStr(next_oid) ELSE ""])
     /\ UNCHANGED <<db, store_ok, reqs>>

if_existing_never(existing) == FALSE

\* `if existing:` in upsert_settings
if_existing(existing) == existing # None

\* @app.get("/api/admin/settings"), run without interruption.
get_settings ==
  LET items == get_documents("sitesettings", NoPayload, Some(1))
      default == SiteSettings_dump(NoPayload)
      outcome == IF Available THEN Return ELSE Exception
      status == except_Exception(outcome)
  IN /\ (Available /\ items = <<>>) => next_oid <= MaxOid
     /\ IF Available /\ items = <<>>
        THEN create_document("sitesettings", default)
        ELSE UNCHANGED <<collections, next_oid>>
     /\ last' = Step([op |-> "get_settings", status |-> status,
                      settings |-> IF status # 200 THEN None
                                   ELSE IF items # <<>>
                                        THEN Some(WithStrId(items[1]))
                                   ELSE Some([_id |-> None] @@ default)])
     /\ UNCHANGED <<db, store_ok, reqs>>

\* @app.post("/api/admin/settings"), run without interruption.
upsert_settings(payload) ==
  LET valid == SiteSettings_valid(payload)
      data == SiteSettings_dump(payload)
      outcome == IF ~db THEN Exception
                 ELSE IF ~store_ok THEN Exception
                 ELSE Return
      status == IF ~valid THEN 422 ELSE except_Exception(outcome)
      existing == find_one("sitesettings")
  IN /\ (status = 200 /\ ~if_existing(existing)) => next_oid <= MaxOid
     /\ IF status = 200 /\ if_existing(existing)
        THEN /\ collections' =
                  ("sitesettings" :>
                     update_one("sitesettings", existing[1]._id, data))
                  @@ collections
             /\ UNCHANGED next_oid
        ELSE IF status = 200
        THEN create_document("sitesettings", data)
        ELSE UNCHANGED <<collections, next_oid>>
     /\ last' = Step([op |-> "upsert_settings", status |-> status,
                      payload |-> payload,
                      rstatus |-> IF status # 200 THEN ""
                                  ELSE IF if_existing(existing) THEN "updated"
                                  ELSE "created",
                      rid |-> IF status = 200 /\ ~if_existing(existing)
                              THEN OidStr(next_oid) ELSE ""])
     /\ UNCHANGED <<db, store_ok, reqs>>

(***************************************************************************)
(* The settings handlers issue two store operations each.  Handlers run in *)
(* worker threads, so the operations of two requests interleave: the steps *)
(* below are the handlers cut at their store operations.                   *)
(***************************************************************************)
Idle == [pc |-> "idle", data |-> None, existing |-> 0]

\* get_settings up to and including get_documents("sitesettings", {}, limit=1).
get_settings_find(w) ==
  LET items == get_documents("sitesettings", NoPayload, Some(1))
      outcome == IF Available THEN Return ELSE Exception
      status == except_Exception(outcome)
  IN /\ reqs[w].pc = "idle"
     /\ IF status = 200 /\ items = <<>>
        THEN /\ reqs' = [reqs EXCEPT ![w] =
                           [pc |-> "get_create",
                            data |-> Some(SiteSettings_dump(NoPayload)),
                            existing |-> 0]]
             /\ last' = Step([op |-> "get_settings", phase |-> "find"])
        ELSE /\ reqs' = reqs
             /\ last' = Step([op |-> "get_settings", phase |-> "find", status |-> status,
                              settings |-> IF status = 200
                                           THEN Some(WithStrId(items[1]))
                                           ELSE None])
     /\ UNCHANGED <<db, store_ok, collections, next_oid>>

\* get_settings from create_document("sitesettings", default) on.
get_settings_create(w) ==
  LET default == reqs[w].data[1]
      outcome == IF Available THEN Return ELSE Exception
      status == except_Exception(outcome)
  IN /\ reqs[w].pc = "get_create"
     /\ Available => next_oid <= MaxOid
     /\ IF Available
        THEN create_document("sitesettings", default)
        ELSE UNCHANGED <<collections, next_oid>>
     /\ reqs' = [reqs EXCEPT ![w] = Idle]
     /\ last' = Step([op |-> "get_settings", phase |-> "create", status |-> status,
                      settings |-> IF status = 200
                                   THEN Some([_id |-> None] @@ default)
                                   ELSE None])
     /\ UNCHANGED <<db, store_ok>>

\* upsert_settings up to and including col.find_one({}).
upsert_settings_find(w, payload) ==
  LET valid == SiteSettings_valid(payload)
      outcome == IF ~db THEN Exception
                 ELSE IF ~store_ok THEN Exception
                 ELSE Return
      status == IF ~valid THEN 422 ELSE except_Exception(outcome)
      existing == find_one("sitesettings")
  IN /\ reqs[w].pc = "idle"
     /\ IF status = 200
        THEN /\ reqs' = [reqs EXCEPT ![w] =
                           [pc |-> IF if_existing(existing) THEN "upsert_update"
                                   ELSE "upsert_create",
                            data |-> Some(SiteSettings_dump(payload)),
                            existing |-> IF if_existing(existing)
                                         THEN existing[1]._id ELSE 0]]
             /\ last' = Step([op |-> "upsert_settings", phase |-> "find", payload |-> payload])
        ELSE /\ reqs' = reqs
             /\ last' = Step([op |-> "upsert_settings", phase |-> "find", payload |-> payload,
                              status |-> status])
     /\ UNCHANGED <<db, store_ok, collections, next_oid>>

\* upsert_settings, the branch `if existing:` col.update_one(...).
upsert_settings_update(w) ==
  LET data == reqs[w].data[1]
      outcome == IF Available THEN Return ELSE Exception
      status == except_Exception(outcome)
  IN /\ reqs[w].pc = "upsert_update"
     /\ collections' =
          IF Available
          THEN ("sitesettings" :>
                  update_one("sitesettings", reqs[w].existing, data))
               @@ collections
          ELSE collections
     /\ reqs' = [reqs EXCEPT ![w] = Idle]
     /\ last' = Step([op |-> "upsert_settings", phase |-> "update", status |-> status,
                      rstatus |-> IF status = 200 THEN "updated" ELSE ""])
     /\ UNCHANGED <<db, store_ok, next_oid>>

\* upsert_settings, the branch `else:` create_document("sitesettings", data).
upsert_settings_create(w) ==
  LET data == reqs[w].data[1]
      outcome == IF Available THEN Return ELSE Exception
      status == except_Exception(outcome)
  IN /\ reqs[w].pc = "upsert_create"
     /\ Available => next_oid <= MaxOid
     /\ IF Available
        THEN create_document("sitesettings", data)
        ELSE UNCHANGED <<collections, next_oid>>
     /\ reqs' = [reqs EXCEPT ![w] = Idle]
     /\ last' = Step([op |-> "upsert_settings", phase |-> "create", status |-> status,
                      rstatus |-> IF status = 200 THEN "created" ELSE "",
                      rid |-> IF status = 200 THEN OidStr(next_oid) ELSE ""])
     /\ UNCHANGED <<db, store_ok>>

filter_q_all(tag) == NoPayload

\* filter_q = {"tag": tag} if tag else {}
filter_q(tag) ==
  IF tag # None /\ tag[1] # "" THEN [tag |-> tag] ELSE NoPayload

\* @app.get("/api/admin/projects")
list_projects(tag) ==
  LET items == get_documents("project", filter_q(tag), None)
      outcome == IF Available THEN Return ELSE Exception
      status == except_Exception(outcome)
  IN /\ last' = Step([op |-> "list_projects", status |-> status, tag |-> tag,
                      items |-> IF status = 200
                                THEN [i \in 1 .. Len(items) |->
                                        WithStrId(items[i])]
                                ELSE <<>>])
     /\ UNCHANGED <<db, store_ok, collections, next_oid, reqs>>

\* @app.post("/api/admin/projects")
create_project(payload) ==
  LET valid == Project_valid(payload)
      outcome == IF Available THEN Return ELSE Exception
      status == IF ~valid THEN 422 ELSE except_Exception(outcome)
  IN /\ (valid /\ Available) => next_oid <= MaxOid
     /\ IF valid /\ Available
        THEN create_document("project", Project_dump(payload))
        ELSE UNCHANGED <<collections, next_oid>>
     /\ last' = Step([op |-> "create_project", status |-> status,
                      payload |-> payload,
                      rstatus |-> IF status = 200 THEN "created" ELSE "",
                      rid |-> IF status = 200 THEN OidStr(next_oid) ELSE ""])
     /\ UNCHANGED <<db, store_ok, reqs>>

set_fields_all(dump) == dump

\* {k: v for k, v in data.model_dump().items() if v is not None}
set_fields(dump) == [k \in {f \in DOMAIN dump : dump[f] # None} |-> dump[k]]

\* @app.put("/api/admin/projects/{project_id}")
\* empty_set_ok: whether the store accepts {"$set": {}} (its version decides).
update_project(project_id, payload, empty_set_ok) ==
  LET valid == ProjectUpdate_valid(payload)
      fields == set_fields(ProjectUpdate_dump(payload))
      outcome ==
        IF ~db THEN Exception
        ELSE IF ~ObjectId_valid(project_id) THEN Exception
        ELSE IF ~store_ok THEN Exception
        ELSE IF DOMAIN fields = {} /\ ~empty_set_ok THEN Exception
        ELSE IF matched_count("project", ObjectId(project_id)) = 0
             THEN HTTPException(404)
        ELSE Return
      status == IF ~valid THEN 422 ELSE except_Exception(outcome)
  IN /\ collections' =
          IF valid /\ ~outcome.raised
          THEN ("project" :>
                  update_one("project", ObjectId(project_id), fields))
               @@ collections
          ELSE collections
     /\ last' = Step([op |-> "update_project", status |-> status,
                      pid |-> project_id, payload |-> payload,
                      rstatus |-> IF status = 200 THEN "updated" ELSE ""])
     /\ UNCHANGED <<db, store_ok, next_oid, reqs>>

delete_project_col_contact == "contactmessage"

\* col = db["project"] in delete_project
delete_project_col == "project"

\* @app.delete("/api/admin/projects/{project_id}")
delete_project(project_id) ==
  LET col == delete_project_col
      outcome ==
        IF ~db THEN Exception
        ELSE IF ~ObjectId_valid(project_id) THEN Exception
        ELSE IF ~store_ok THEN Exception
        ELSE IF matched_count(col, ObjectId(project_id)) = 0
             THEN HTTPException(404)
        ELSE Return
      status == except_Exception(outcome)
  IN /\ collections' =
          IF ~outcome.raised
          THEN (col :> delete_one(col, ObjectId(project_id))) @@ collections
          ELSE collections
     /\ last' = Step([op |-> "delete_project", status |-> status,
                      pid |-> project_id,
                      rstatus |-> IF status = 200 THEN "deleted" ELSE ""])
     /\ UNCHANGED <<db, store_ok, next_oid, reqs>>

\* @app.get("/test"): every failure becomes a status string, never an error.
test_database ==
  LET names == list_collection_names
  IN /\ last' = Step([op |-> "test_database", status |-> 200,
                      conn |-> IF db THEN "Connected" ELSE "Not Connected",
                      rstatus |->
                        IF ~db THEN "Available but not initialized"
                        ELSE IF store_ok THEN "Connected & Working"
                        ELSE "Connected but Error",
                      colls |->
                        IF db /\ store_ok
                        THEN SubSeq(names, 1,
                                    IF Len(names) < CollectionsCap
                                    THEN Len(names) ELSE CollectionsCap)
                        ELSE <<>>])
     /\ UNCHANGED <<db, store_ok, collections, next_oid, reqs>>

\* The store stops or resumes answering (network, server): StorageError.
store_fault ==
  /\ db
  /\ store_ok' = ~store_ok
  /\ last' = Step([op |-> "store_fault"])
  /\ UNCHANGED <<db, collections, next_oid, reqs>>

(***************************************************************************)
(* Requests the model sends.                                               *)
(***************************************************************************)
ContactOk ==
  {[name |-> Some("Al"), email |-> Some("a@b.co"),
    message |-> Some(Pad(MessageMinLen))],
   [name |-> Some(Pad(NameMaxLen)), email |-> Some("ops@axiom.io"),
    message |-> Some(Pad(MessageMaxLen)),
    company |-> Some(Pad(CompanyMaxLen)), phone |-> Some(Pad(PhoneMaxLen))]}

ContactBad ==
  {[email |-> Some("a@b.co"), message |-> Some(Pad(MessageMinLen))],
   [name |-> Some("A"), email |-> Some("a@b.co"),
    message |-> Some(Pad(MessageMinLen))],
   [name |-> Some(Pad(NameMaxLen + 1)), email |-> Some("a@b.co"),
    message |-> Some(Pad(MessageMinLen))],
   [name |-> Some("Al"), email |-> Some("not-an-email"),
    message |-> Some(Pad(MessageMinLen))],
   [name |-> Some("Al"), email |-> Some("a@b.co"),
    message |-> Some(Pad(MessageMinLen - 1))],
   [name |-> Some("Al"), email |-> Some("a@b.co"),
    message |-> Some(Pad(MessageMaxLen + 1))],
   [name |-> Some("Al"), email |-> Some("a@b.co"),
    message |-> Some(Pad(MessageMinLen)),
    company |-> Some(Pad(CompanyMaxLen + 1))],
   [name |-> Some("Al"), email |-> Some("a@b.co"),
    message |-> Some(Pad(MessageMinLen)), phone |-> Some(Pad(PhoneMaxLen + 1))]}

SettingsOk ==
  {[hero_title |-> Some("Axiom Studio"), contact_email |-> Some("ops@axiom.io"),
    stat_projects |-> Some(12), stat_awards |-> None,
    theme_default_dark |-> Some(FALSE)]}

SettingsBad ==
  {[stat_clients |-> Some(StatMin - 1)],
   [contact_email |-> Some("not-an-email")],
   [hero_title |-> None]}

ProjectOk ==
  {[title |-> Some("Site Redesign"), tag |-> Some("Web"),
    image_url |-> Some("http://x/y.png")],
   [title |-> Some("Vision Bot"), tag |-> Some("AI"),
    image_url |-> Some("http://x/z.png"), featured |-> Some(TRUE),
    order |-> Some(2)]}

ProjectBad ==
  {[title |-> Some("Site Redesign"), image_url |-> Some("http://x/y.png")],
   [title |-> Some("Site Redesign"), tag |-> Some("Web"),
    image_url |-> Some("http://x/y.png"), order |-> Some(OrderMin - 1)],
   [title |-> Some("Site Redesign"), tag |-> Some("Web"),
    image_url |-> Some("http://x/y.png"), featured |-> None]}

UpdateOk ==
  {[featured |-> Some(TRUE)],
   [tag |-> Some("AI"), order |-> Some(0), description |-> None],
   NoPayload}

UpdateBad == {[order |-> Some(OrderMin - 1)]}

PathIds == {OidStr(n) : n \in OidUniverse} \cup {"not-an-objectid"}

Tags == {None, Some(""), Some("Web")}

Init ==
  /\ db \in BOOLEAN
  /\ store_ok = TRUE
  /\ collections = NoPayload
  /\ next_oid = 1
  /\ reqs = [w \in Workers |-> Idle]
  /\ last = Blank

Next ==
  \/ read_root
  \/ hello
  \/ \E payload \in ContactOk \cup ContactBad : submit_contact(payload)
  \/ get_settings
  \/ \E payload \in SettingsOk \cup SettingsBad : upsert_settings(payload)
  \/ \E tag \in Tags : list_projects(tag)
  \/ \E payload \in ProjectOk \cup ProjectBad : create_project(payload)
  \/ \E project_id \in PathIds, payload \in UpdateOk \cup UpdateBad :
       \E empty_set_ok \in IF payload = NoPayload THEN BOOLEAN ELSE {TRUE} :
         update_project(project_id, payload, empty_set_ok)
  \/ \E project_id \in PathIds : delete_project(project_id)
  \/ test_database
  \/ store_fault

Spec == Init /\ [][Next]_vars

\* The settings handlers of concurrent requests, store operation by store
\* operation.
NextConcurrent ==
  \/ \E w \in Workers : get_settings_find(w)
  \/ \E w \in Workers : get_settings_create(w)
  \/ \E w \in Workers, payload \in SettingsOk \cup SettingsBad :
       upsert_settings_find(w, payload)
  \/ \E w \in Workers : upsert_settings_update(w)
  \/ \E w \in Workers : upsert_settings_create(w)
  \/ store_fault

SpecConcurrent == Init /\ [][NextConcurrent]_vars

(***************************************************************************)
(* Properties.  A step is described by last' (the handler that ran, its    *)
(* input and its response); unprimed variables are the state before it.    *)
(***************************************************************************)
Projects == Coll("project")
Contacts == Coll("contactmessage")
Settings == Coll("sitesettings")

OnProject(op) == op \in {"update_project", "delete_project"}

\* Whether a PUT body sets some field (its "$set" document is not empty).
SetsField(p) == set_fields(ProjectUpdate_dump(p)) # NoPayload

\* C1 (as claimed): with the store available, PUT (with a valid body that
\* sets some field) and DELETE on a well-formed id that matches no stored
\* project answer 404 and leave the project collection unchanged.
C1_NotFoundLaw ==
  [][(/\ Available
      /\ OnProject(last'.op)
      /\ last'.op = "update_project"
         => (last'.payload \in UpdateOk /\ SetsField(last'.payload))
      /\ ObjectId_valid(last'.pid)
      /\ ObjectId(last'.pid) \notin Ids("project"))
     => (last'.status = 404 /\ Projects' = Projects)]_vars

\* C2 (as claimed): under every interleaving of the settings handlers' store
\* operations the sitesettings collection holds at most one document.
C2_Singleton == Len(Settings) <= 1

\* C3: a successful PUT overwrites, in the project with the given id, exactly
\* the fields that are present and non-null in the payload with the payload's
\* values; every other field of it, its _id, every other project and every
\* other collection stay as they were.
C3_PartialUpdate ==
  [][(last'.op = "update_project" /\ last'.status = 200)
     => LET oid == ObjectId(last'.pid)
            p == last'.payload
            old == Projects
            new == Projects'
        IN /\ oid \in Ids("project")
           /\ Len(new) = Len(old)
           /\ \A i \in 1 .. Len(old) :
                /\ DOMAIN new[i] = DOMAIN old[i]
                /\ new[i]._id = old[i]._id
                /\ \A f \in ProjectFields :
                     new[i][f] =
                       IF old[i]._id = oid /\ f \in DOMAIN p /\ p[f] # None
                       THEN p[f] ELSE old[i][f]
           /\ Contacts' = Contacts
           /\ Settings' = Settings]_vars

\* C3 witness: an update with a non-null and a null field has been applied
\* while two projects are stored, and changed the tag of one of them only.
C3_Witness ==
  /\ last.op = "update_project"
  /\ last.status = 200
  /\ last.payload = [tag |-> Some("AI"), order |-> Some(0), description |-> None]
  /\ Len(Projects) = 2
  /\ \E i, j \in 1 .. 2 :
       /\ Projects[i]._id = ObjectId(last.pid)
       /\ Projects[i].title = Some("Site Redesign")
       /\ Projects[i].tag = Some("AI")
       /\ Projects[j].tag = Some("Web")

\* C4: a payload that violates its endpoint's schema is answered 422 and no
\* store operation runs: collections and ids are as before, whether or not
\* the store is available.
C4_ValidationShortCircuit ==
  [][(\/ last'.op = "submit_contact" /\ last'.payload \in ContactBad
      \/ last'.op = "upsert_settings" /\ last'.payload \in SettingsBad
      \/ last'.op = "create_project" /\ last'.payload \in ProjectBad
      \/ last'.op = "update_project" /\ last'.payload \in UpdateBad)
     => (/\ last'.status = 422
         /\ collections' = collections
         /\ next_oid' = next_oid)]_vars

\* C4 witness: a contact payload with a one-character name was rejected
\* while the store holds documents and does not answer.
C4_Witness ==
  /\ last.op = "submit_contact"
  /\ Get(last.payload, "name") = Some("A")
  /\ last.status = 422
  /\ ~store_ok
  /\ Contacts # <<>>
  /\ Projects # <<>>

\* C5 (as claimed): PUT (valid body) or DELETE with an id that is no
\* ObjectId is answered with a not-found or client error, not a server
\* error, and the store is unchanged.
C5_MalformedId ==
  [][(/\ Available
      /\ OnProject(last'.op)
      /\ last'.op = "update_project" => last'.payload \in UpdateOk
      /\ ~ObjectId_valid(last'.pid))
     => (/\ last'.status \in {400, 404, 422}
         /\ collections' = collections)]_vars

\* C6 (as claimed): two GET /api/admin/settings directly after one another
\* return the same content.
C6_IdempotentRead ==
  [][(/\ last.op = "get_settings" /\ last.status = 200
      /\ last'.op = "get_settings" /\ last'.status = 200)
     => last'.settings = last.settings]_vars

\* C7: with the store available and a valid payload, POST
\* /api/admin/settings inserts exactly one document and answers "created"
\* with its id when the collection is empty, and otherwise rewrites the
\* stored document in place (same _id, same count) and answers "updated";
\* the other collections and documents are unchanged.
C7_SettingsUpsert ==
  [][(/\ Available
      /\ last'.op = "upsert_settings"
      /\ last'.payload \in SettingsOk)
     => LET data == SiteSettings_dump(last'.payload)
            old == Settings
            new == Settings'
        IN /\ last'.status = 200
           /\ Contacts' = Contacts
           /\ Projects' = Projects
           /\ IF old = <<>>
              THEN /\ new = <<[_id |-> next_oid] @@ data>>
                   /\ last'.rstatus = "created"
                   /\ last'.rid = OidStr(next_oid)
              ELSE /\ Len(new) = Len(old)
                   /\ new[1] = [_id |-> old[1]._id] @@ data
                   /\ \A i \in 2 .. Len(old) : new[i] = old[i]
                   /\ last'.rstatus = "updated"
                   /\ last'.rid = ""
                   /\ next_oid' = next_oid]_vars

\* C7 witness: the stored settings document was rewritten by a POST.
C7_Witness ==
  /\ last.op = "upsert_settings"
  /\ last.rstatus = "updated"
  /\ Len(Settings) = 1
  /\ Settings[1].hero_title = Some("Axiom Studio")
  /\ Settings[1].stat_clients = Some(0)
  /\ Projects # <<>>

\* C8: the contactmessage collection only ever grows at its end, and only by
\* a successful POST /api/contact with a valid payload, which adds exactly
\* one document under a fresh id and returns that id.
C8_ContactAppendOnly ==
  [][LET old == Contacts
         new == Contacts'
     IN /\ Len(new) >= Len(old)
        /\ \A i \in 1 .. Len(old) : new[i] = old[i]
        /\ (new # old \/ (last'.op = "submit_contact" /\ last'.status = 200))
           => /\ last'.op = "submit_contact"
              /\ last'.status = 200
              /\ last'.payload \in ContactOk
              /\ Len(new) = Len(old) + 1
              /\ new[Len(new)] =
                   [_id |-> next_oid] @@ ContactMessage_dump(last'.payload)
              /\ next_oid \notin
                   Ids("contactmessage") \cup Ids("project")
                     \cup Ids("sitesettings")
              /\ last'.rid # ""
              /\ last'.rid = OidStr(next_oid)]_vars

\* C8 witness: a second contact message was stored behind the first.
C8_Witness ==
  /\ last.op = "submit_contact"
  /\ last.status = 200
  /\ Len(Contacts) = 2
  /\ Contacts[1]._id = 1
  /\ Contacts[2]._id = 2

\* The projects a listing must hold for the filter tag t, as returned.
Listed(keep(_)) ==
  LET hits == SelectSeq(Projects, keep)
  IN [i \in 1 .. Len(hits) |-> WithStrId(hits[i])]

\* C9 (as claimed): with a tag value supplied, the listing holds exactly the
\* stored projects whose tag equals it; without one, all of them.
C9_FilterExact ==
  (last.op = "list_projects" /\ last.status = 200)
  => last.items =
       IF last.tag # None
       THEN Listed(LAMBDA d : d.tag = last.tag)
       ELSE Listed(LAMBDA d : TRUE)

\* C9 (amended): with a non-empty tag value supplied, the listing holds
\* exactly the stored projects whose tag equals it; without a tag parameter,
\* or with an empty tag value, it holds all stored projects.  With the store
\* available the request succeeds, and it never changes the store.
C9_FilterNonEmpty ==
  [][last'.op = "list_projects"
     => /\ collections' = collections
        /\ next_oid' = next_oid
        /\ Available => last'.status = 200
        /\ last'.status = 200
           => last'.items =
                IF last'.tag # None /\ last'.tag # Some("")
                THEN Listed(LAMBDA d : d.tag = last'.tag)
                ELSE Listed(LAMBDA d : TRUE)]_vars

\* C9 witness: a listing for tag "Web" returned one of two stored projects.
C9_Witness ==
  /\ last.op = "list_projects"
  /\ last.tag = Some("Web")
  /\ Len(Projects) = 2
  /\ Len(last.items) = 1
  /\ last.items[1].tag = Some("Web")
  /\ \E i \in 1 .. 2 : Projects[i].tag = Some("AI")

PersistenceOps ==
  {"submit_contact", "get_settings", "upsert_settings", "list_projects",
   "create_project", "update_project", "delete_project"}

\* Whether the request just served was schema-valid.
ValidRequest ==
  \/ last.op \in {"get_settings", "list_projects", "delete_project"}
  \/ last.op = "submit_contact" /\ last.payload \in ContactOk
  \/ last.op = "upsert_settings" /\ last.payload \in SettingsOk
  \/ last.op = "create_project" /\ last.payload \in ProjectOk
  \/ last.op = "update_project" /\ last.payload \in UpdateOk

\* C10: while there is no store connection, a schema-valid request to a
\* persistence endpoint is answered 500 and none reports success; GET /,
\* GET /api/hello and GET /test answer 200, /test reporting "Not Connected".
C10_DegradedMode ==
  ~db =>
    /\ (last.op \in PersistenceOps /\ ValidRequest) => last.status = 500
    /\ last.op \in PersistenceOps
       => (last.status \in {422, 500} /\ last.rstatus = "" /\ last.rid = "")
    /\ last.op \in {"read_root", "hello", "test_database"}
       => last.status = 200
    /\ last.op = "test_database"
       => (last.conn = "Not Connected" /\ last.colls = <<>>)
    /\ collections = NoPayload

\* C10 witness: without a connection, a valid PUT was answered 500.
C10_Witness ==
  /\ ~db
  /\ last.op = "update_project"
  /\ last.payload = [featured |-> Some(TRUE)]
  /\ last.status = 500

=============================================================================
